---------------------------- MODULE Spec2Model ----------------------------
(***************************************************************************)
(* A model of p-retry (src/index.js): one run of pRetry(input, options).   *)
(*                                                                         *)
(* JavaScript values are tagged records: the field t is the value's kind   *)
(* ("undefined", "null", "string", "number", "nan", "boolean", "error").   *)
(* An error carries its class, its message, an identity (id: the attempt   *)
(* that created it, 0 for an error created by the library or the runtime)  *)
(* and, for an AbortError, its originalError.  Normalized numeric options  *)
(* are plain integers; Infinity is a number above every finite value the   *)
(* model computes.  In the messages of the source a backtick is written '  *)
(* and the sign for "greater than or equal" is written >=.                 *)
(***************************************************************************)
EXTENDS Integers, Sequences, FiniteSets, TLC

VARIABLES
    args,            \* the options object the caller passed (never written)
    options,         \* pRetry's own copy of the options, normalized by the call
    signal,          \* options.signal: [state, reason, listener]
    pc,              \* where the run is suspended, or how it settled
    attemptNumber,   \* pRetry: let attemptNumber
    startTime,       \* pRetry: const startTime
    now,             \* Date.now()
    normalizedError, \* onAttemptFailure: the error of the failure being handled
    context,         \* onAttemptFailure: the frozen context of that failure
    currentTime,     \* onAttemptFailure: const currentTime
    timer,           \* onAttemptFailure: timeoutToken [pending, at]
    settled,         \* the value pRetry resolved with or the reason it rejected with
    trace,           \* history: the calls made to the operation, callbacks and timers
    otherCall        \* the locals of a second pRetry call in flight, if there is one

vars == <<args, options, signal, pc, attemptNumber, startTime, now,
          normalizedError, context, currentTime, timer, settled, trace, otherCall>>

---------------------------------------------------------------------------
(* Bounds of the model *)

\* the largest finite retries value tried
MaxRetries == 2
\* the operation is invoked at most this many times (caps retries = Infinity and the default 10)
MaxCalls == 4
\* Date.now() when pRetry is called
ClockAtCall == 3
\* the clock is advanced by single ticks for at most this long after the call
MaxTicks == 2

\* Number.POSITIVE_INFINITY
Infinity == 1000000

---------------------------------------------------------------------------
(* JavaScript values *)

Undefined == [t |-> "undefined"]
Null == [t |-> "null"]
NaN == [t |-> "nan"]
Num(n) == [t |-> "number", n |-> n]
Str(s) == [t |-> "string", s |-> s]
Bool(b) == [t |-> "boolean", b |-> b]

\* the number n / d (d > 0), for a factor that is not an integer
Ratio(n, d) == [t |-> "number", n |-> n, d |-> d]

\* the denominator of a number
Den(value) == IF "d" \in DOMAIN value THEN value.d ELSE 1

\* typeof value
TypeOf(value) == IF value.t = "nan" THEN "number" ELSE value.t

\* new <cls>(message), created by attempt id (0: by the library)
NewError(cls, message, id) ==
    [t |-> "error", cls |-> cls, msg |-> message, id |-> id, orig |-> <<>>]

\* value instanceof Error
IsError(value) == value.t = "error"

\* value instanceof TypeError
IsTypeError(value) == IsError(value) /\ value.cls = "TypeError"

\* value instanceof AbortError (the class exported by p-retry)
IsAbortError(value) == IsError(value) /\ value.cls = "AbortError"

\* '${value}' for the values the model throws
StringOf(value) ==
    CASE value.t = "string" -> value.s
      [] value.t = "null" -> "null"
      [] value.t = "undefined" -> "undefined"
      [] value.t = "error" -> value.cls \o ": " \o value.msg
      [] OTHER -> "?"

\* new AbortError(message): message is an Error or a string
AbortError(message, id) ==
    [t |-> "error", cls |-> "AbortError",
     msg |-> IF IsError(message) THEN message.msg ELSE StringOf(message),
     id |-> id,
     orig |-> <<IF IsError(message) THEN message
                ELSE NewError("Error", StringOf(message), id)>>]

\* error.originalError
OriginalError(error) == error.orig[1]

\* the messages the network-error predicate recognises
NetworkErrorMessages ==
    {"Failed to fetch", "NetworkError when attempting to fetch resource.",
     "The Internet connection appears to be offline.", "Network request failed",
     "fetch failed"}

\* isNetworkError(error), the injected predicate
isNetworkError(error) ==
    IsTypeError(error) /\ error.msg \in NetworkErrorMessages

---------------------------------------------------------------------------
(* Numbers: Infinity absorbs addition and subtraction *)

Min(a, b) == IF a <= b THEN a ELSE b
Max(a, b) == IF a >= b THEN a ELSE b
Plus(a, b) == IF a = Infinity \/ b = Infinity THEN Infinity ELSE a + b
Minus(a, b) == IF a = Infinity THEN Infinity ELSE a - b

RECURSIVE Pow(_, _)
\* base ** exponent, exponent >= 0
Pow(base, exponent) == IF exponent = 0 THEN 1 ELSE base * Pow(base, exponent - 1)

\* Math.round(n / d) for n >= 0, d > 0: halves are rounded up
Round(n, d) == (2 * n + d) \div (2 * d)

---------------------------------------------------------------------------
(* Validation and defaults *)

\* validateRetries(retries): the TypeError it throws, or Undefined
validateRetries(retries) ==
    IF TypeOf(retries) = "number"
    THEN IF retries.t = "number" /\ retries.n < 0
         THEN NewError("TypeError", "Expected 'retries' to be a non-negative number.", 0)
         ELSE IF retries.t = "nan"
         THEN NewError("TypeError", "Expected 'retries' to be a valid number or Infinity, got NaN.", 0)
         ELSE Undefined
    ELSE IF retries # Undefined
    THEN NewError("TypeError", "Expected 'retries' to be a number or Infinity.", 0)
    ELSE Undefined

\* validateNumberOption(name, value, {min, allowInfinity}): the TypeError it throws, or Undefined
validateNumberOption(name, value, min, allowInfinity) ==
    IF value = Undefined
    THEN Undefined
    ELSE IF TypeOf(value) # "number" \/ value.t = "nan"
    THEN NewError("TypeError",
                  "Expected '" \o name \o "' to be a number"
                      \o (IF allowInfinity THEN " or Infinity" ELSE "") \o ".", 0)
    ELSE IF ~allowInfinity /\ value.n = Infinity
    THEN NewError("TypeError", "Expected '" \o name \o "' to be a finite number.", 0)
    ELSE IF value.n < min * Den(value)
    THEN NewError("TypeError", "Expected '" \o name \o "' to be >= " \o ToString(min) \o ".", 0)
    ELSE Undefined

\* value ?? fallback
Coalesce(value, fallback) == IF value \in {Undefined, Null} THEN fallback ELSE value

\* the options after the '??=' defaults (pRetry, before the numeric validation)
WithDefaults(o) ==
    [o EXCEPT !.retries = Coalesce(@, Num(10)),
              !.factor = Coalesce(@, Num(2)),
              !.minTimeout = Coalesce(@, Num(1000)),
              !.maxTimeout = Coalesce(@, Num(Infinity)),
              !.randomize = Coalesce(@, Bool(FALSE))]

\* const resolvedMaxRetryTime = options.maxRetryTime ?? Infinity
ResolvedMaxRetryTime(o) == Coalesce(o.maxRetryTime, Num(Infinity))

\* the first error pRetry throws while it validates its options, or Undefined
ValidationError(o) ==
    LET d == WithDefaults(o) IN
    IF validateRetries(o.retries) # Undefined THEN validateRetries(o.retries)
    ELSE IF o.forever
    THEN NewError("Error",
                  "The 'forever' option is no longer supported. For many use-cases, "
                      \o "you can set 'retries: Infinity' instead.", 0)
    ELSE IF validateNumberOption("factor", d.factor, 0, FALSE) # Undefined
    THEN validateNumberOption("factor", d.factor, 0, FALSE)
    ELSE IF validateNumberOption("minTimeout", d.minTimeout, 0, FALSE) # Undefined
    THEN validateNumberOption("minTimeout", d.minTimeout, 0, FALSE)
    ELSE IF validateNumberOption("maxTimeout", d.maxTimeout, 0, TRUE) # Undefined
    THEN validateNumberOption("maxTimeout", d.maxTimeout, 0, TRUE)
    ELSE validateNumberOption("maxRetryTime", ResolvedMaxRetryTime(o), 0, TRUE)

\* validated options that keep a factor of 0
NormalizedKeepsFactor(o) ==
    LET d == WithDefaults(o) IN
    [retries |-> d.retries.n,
     factor |-> d.factor.n,
     factorDen |-> Den(d.factor),
     minTimeout |-> d.minTimeout.n,
     maxTimeout |-> d.maxTimeout.n,
     randomize |-> d.randomize.b,
     maxRetryTime |-> ResolvedMaxRetryTime(o).n,
     forever |-> o.forever,
     shouldSkip |-> o.shouldSkip]

\* the validated options: plain numbers (the factor is factor / factorDen),
\* factor <= 0 treated as 1
Normalized(o) ==
    LET d == WithDefaults(o) IN
    [retries |-> d.retries.n,
     factor |-> IF ~(d.factor.n > 0) THEN 1 ELSE d.factor.n,
     factorDen |-> IF ~(d.factor.n > 0) THEN 1 ELSE Den(d.factor),
     minTimeout |-> d.minTimeout.n,
     maxTimeout |-> d.maxTimeout.n,
     randomize |-> d.randomize.b,
     maxRetryTime |-> ResolvedMaxRetryTime(o).n,
     forever |-> o.forever,
     shouldSkip |-> o.shouldSkip]

---------------------------------------------------------------------------
(* Contexts and delays *)

\* a freeze that leaves the object writable
ObjectFreezeNot(object) == object

\* Object.freeze(object): the properties of the object can no longer be written
ObjectFreeze(object) == [object EXCEPT !.frozen = TRUE]

\* createRetryContext(error, attemptNumber, options)
createRetryContext(error, attempt, o) ==
    ObjectFreeze([error |-> error,
                  attemptNumber |-> attempt,
                  retriesLeft |-> Minus(o.retries, attempt - 1),
                  frozen |-> FALSE])

\* calculateDelay(attempt, options), with Math.random() + 1 given in tenths (10..19)
calculateDelay(attempt, o, randomTenths) ==
    LET random == IF o.randomize THEN randomTenths ELSE 10
        timeout == Round(random * Max(o.minTimeout, 1) * Pow(o.factor, attempt - 1),
                         10 * Pow(o.factorDen, attempt - 1))
    IN Min(timeout, o.maxTimeout)

---------------------------------------------------------------------------
(* What the environment may do: the operation, the callbacks, the signal *)

\* what the operation may return
ReturnValues == {Null, Str("fixture")}

\* what the operation may throw on attempt k
ThrownValues(k) ==
    {NewError("Error", "fixture", k),
     NewError("TypeError", "Failed to fetch", k),
     NewError("TypeError", "type-error-fixture", k),
     AbortError(NewError("Error", "fixture", k), k),
     AbortError(Str("stop"), k),
     Str("not an error")}

\* what a callback may throw while it handles the failure of attempt k
CallbackThrownValues(k) ==
    {NewError("Error", "thrown from callback", k), Str("thrown from callback")}

\* what shouldRetry may resolve to
ShouldRetryValues == {Bool(TRUE), Bool(FALSE), Undefined}

\* the reasons a signal may be aborted with: the default DOMException, or a string
AbortReasons ==
    {NewError("DOMException", "This operation was aborted", 0), Str("cancelled")}

\* Math.random() + 1, in tenths
RandomTenths == {10, 15, 19}

\* a condition that only takes false for a refusal
TruthyUnlessFalse(value) == value # Bool(FALSE)

\* a value in a condition
Truthy(value) ==
    CASE value.t = "boolean" -> value.b
      [] value.t \in {"undefined", "null", "nan"} -> FALSE
      [] value.t = "number" -> value.n # 0
      [] value.t = "string" -> value.s # ""
      [] OTHER -> TRUE

NoSignal == [state |-> "none", reason |-> Undefined, listener |-> FALSE]
NoTimer == [pending |-> FALSE, at |-> 0]

\* the retries values tried: the default, invalid ones, finite ones and Infinity
RetriesValues ==
    {Undefined, NaN, Str("3"), Num(0 - 1), Num(Infinity)} \cup {Num(n) : n \in 0..MaxRetries}

\* option objects that vary the retry budget and the deadline (delays of 1, 2, 4 ms)
BudgetOptions ==
    [retries : RetriesValues,
     factor : {Undefined},
     minTimeout : {Num(1)},
     maxTimeout : {Undefined},
     maxRetryTime : {Undefined, Num(0), Num(2)},
     randomize : {Undefined},
     forever : {FALSE},
     shouldSkip : {Undefined}]

\* option objects that vary the delay policy
DelayOptions ==
    [retries : {Num(MaxRetries)},
     factor : {Undefined, Num(0), Num(1), Num(3), Ratio(1, 4)},
     minTimeout : {Undefined, Num(0), Num(1), Num(2), Num(3)},
     maxTimeout : {Undefined, Num(0), Num(2)},
     maxRetryTime : {Undefined, Num(2)},
     randomize : {Undefined, Bool(TRUE)},
     forever : {FALSE},
     shouldSkip : {Undefined}]

\* option objects with one invalid numeric option, or with the legacy forever key
InvalidOptions ==
    [retries : {Num(1)},
     factor : {Undefined, NaN, Num(0 - 1), Num(Infinity)},
     minTimeout : {Undefined, Str("1"), Num(0 - 1)},
     maxTimeout : {Undefined, NaN, Num(0 - 1)},
     maxRetryTime : {Undefined, Str("5"), Num(0 - 1)},
     randomize : {Undefined},
     forever : {FALSE, TRUE},
     shouldSkip : {Undefined}]

\* a shouldSkip option: a predicate that holds of the failures of the attempts in skips
SkipOn(skips) == [t |-> "function", skips |-> skips]

\* option objects that give a shouldSkip predicate, as the test
\* 'wont count SkipError as attempt' does
SkipOptions ==
    [retries : {Num(1), Num(MaxRetries)},
     factor : {Undefined},
     minTimeout : {Num(1)},
     maxTimeout : {Undefined},
     maxRetryTime : {Undefined},
     randomize : {Undefined},
     forever : {FALSE},
     shouldSkip : {SkipOn({1}), SkipOn(1..MaxCalls)}]

\* a callback given as a function that, called as a method of the options copy
\* with the context, assigns object[key] = value before it settles; object is
\* "this" (the options copy) or "context.error" (the error of the frozen context);
\* strict tells whether the function is strict code, where an assignment that
\* cannot be made throws a TypeError instead of being ignored
Method(object, key, value, strict) ==
    [t |-> "function", object |-> object, key |-> key, value |-> value, strict |-> strict]

\* the callbacks of this kind that are tried
Methods ==
    {Method("this", "retries", Num(0), TRUE),
     Method("this", "retries", Num(Infinity), TRUE),
     Method("this", "maxTimeout", Num(0), TRUE),
     Method("this", "maxTimeout", Num(Infinity), TRUE),
     Method("context.error", "message", Str("changed"), TRUE),
     Method("context.error", "message", Str("changed"), FALSE)}

\* option objects whose onFailedAttempt or shouldRetry is such a function; the
\* callbacks of the other option objects write neither to this nor to the error.
\* Runs with retries: Infinity get a callback that ends the budget, runs with
\* factor: 0 one that changes the cap of the delay.
WritingOptions ==
    LET plain == [retries : {Num(1), Num(2)},
                  factor : {Undefined},
                  minTimeout : {Num(1)},
                  maxTimeout : {Num(1)},
                  maxRetryTime : {Undefined},
                  randomize : {Undefined},
                  forever : {FALSE},
                  shouldSkip : {Undefined},
                  onFailedAttempt : {Undefined},
                  shouldRetry : {Undefined}]
        unbounded == {[o EXCEPT !.retries = Num(Infinity)] : o \in plain}
        flat == {[o EXCEPT !.retries = Num(2), !.factor = Num(0)] : o \in plain}
        written(os, methods) ==
            {[o EXCEPT ![callback] = method] :
                o \in os, callback \in {"onFailedAttempt", "shouldRetry"}, method \in methods}
    IN written(plain, Methods)
           \cup written(unbounded, {Method("this", "retries", Num(0), TRUE)})
           \cup written(flat, {Method("this", "maxTimeout", Num(0), TRUE)})

\* the option objects of WritingOptions given together with a signal: a callback
\* that writes to the error of the context, which is the signal's reason when the
\* signal was aborted while the operation ran
ErrorWritingOptions ==
    {o \in WritingOptions :
        /\ o.retries = Num(1)
        /\ \E callback \in {"onFailedAttempt", "shouldRetry"} :
               o[callback] # Undefined /\ o[callback].object = "context.error"}

\* a signal that is not aborted when pRetry is called
PendingSignal == [state |-> "pending", reason |-> Undefined, listener |-> FALSE]

\* the signals pRetry is called with: none, one not aborted yet, one already aborted
InitialSignals ==
    {NoSignal, [state |-> "pending", reason |-> Undefined, listener |-> FALSE]}
        \cup {[state |-> "aborted", reason |-> r, listener |-> FALSE] : r \in AbortReasons}

Event(ev, attempt, arg) == [ev |-> ev, at |-> attempt, arg |-> arg]

Init ==
    /\ \/ args \in BudgetOptions \cup InvalidOptions /\ signal \in InitialSignals
       \/ args \in DelayOptions \cup SkipOptions \cup WritingOptions /\ signal = NoSignal
       \/ args \in ErrorWritingOptions /\ signal = PendingSignal
    /\ options = args
    /\ pc = "called"
    /\ attemptNumber = 0
    /\ startTime = 0
    /\ now = ClockAtCall
    /\ normalizedError = Undefined
    /\ context = Undefined
    /\ currentTime = 0
    /\ timer = NoTimer
    /\ settled = Undefined
    /\ trace = <<>>
    /\ otherCall = Undefined

---------------------------------------------------------------------------
(* The run *)

\* the promise returned by pRetry settles
Settle(how, value, tr) ==
    /\ pc' = how
    /\ settled' = value
    /\ trace' = tr

\* onAttemptFailure: a value that is not an Error is wrapped in a TypeError
\* a normalization that lets any thrown value through
NormalizeErrorKeepsValue(error) == error

\* onAttemptFailure: a thrown value that is not an Error is wrapped in a TypeError
NormalizeError(error) ==
    IF ~IsError(error)
    THEN NewError("TypeError",
                  "Non-error was thrown: \"" \o StringOf(error)
                      \o "\". You should only throw errors.", 0)
    ELSE error

\* a classification that retries every TypeError
IsTerminalErrorOnlyAbort(error) == IsAbortError(error)

\* a classification that never retries a TypeError
IsTerminalErrorAnyTypeError(error) == IsAbortError(error) \/ IsTypeError(error)

\* onAttemptFailure: the errors rethrown at once, before any callback
IsTerminalError(error) ==
    IsAbortError(error) \/ (IsTypeError(error) /\ ~isNetworkError(error))

\* a rethrow that keeps the AbortError wrapper
TerminalRejectionKeepsWrapper(error) == error

\* onAttemptFailure: what is rethrown for a terminal error
TerminalRejection(error) ==
    IF IsAbortError(error) THEN OriginalError(error) ELSE error

\* a failure handler that consults shouldRetry without calling onFailedAttempt
OnAttemptFailureSkipsOnFailedAttempt(error, attempt, o, tr) ==
    LET normalized == NormalizeError(error)
        ctx == createRetryContext(normalized, attempt, o)
    IN /\ normalizedError' = normalized
       /\ IF IsTerminalError(normalized)
          THEN /\ Settle("rejected", TerminalRejection(normalized), tr)
               /\ context' = context
          ELSE /\ context' = ctx
               /\ pc' = "shouldRetry"
               /\ settled' = settled
               /\ trace' = Append(tr, Event("shouldRetry", attempt, ctx))

\* onAttemptFailure entered with the error of attempt 'attempt', up to its first await
OnAttemptFailureBegins(error, attempt, o, tr) ==
    LET normalized == NormalizeError(error)
        ctx == createRetryContext(normalized, attempt, o)
    IN /\ normalizedError' = normalized
       /\ IF IsTerminalError(normalized)
          THEN /\ Settle("rejected", TerminalRejection(normalized), tr)
               /\ context' = context
          ELSE /\ context' = ctx
               /\ pc' = "onFailedAttempt"
               /\ settled' = settled
               /\ trace' = Append(tr, Event("onFailedAttempt", attempt, ctx))

\* options.retries + 1: the number of attempts the budget allows
AttemptLimit(o) == Plus(o.retries, 1)

\* pRetry: the condition of the while loop
LoopCondition(attempt, o) == attempt < AttemptLimit(o)

\* the call was made through the function makeRetriable returned
IsRetriable == "arguments_" \in DOMAIN args

\* a closure that hands its own argument, the attempt number, to function_
ClosureForwardsAttempt(call, closureArgument) ==
    [this |-> call.this, arguments_ |-> <<closureArgument>>]

\* makeRetriable: () => function_.apply(this, arguments_), what function_ is applied to
Closure(call, closureArgument) ==
    [this |-> call.this, arguments_ |-> call.arguments_]

\* input(attemptNumber) is invoked: with makeRetriable, input is the closure
InputEvents(attempt) ==
    IF IsRetriable
    THEN <<Event("input", attempt, Num(attempt)),
           Event("function_", attempt, Closure(args, Num(attempt)))>>
    ELSE <<Event("input", attempt, Num(attempt))>>

\* an iteration that starts the attempt without looking at the signal
IterationSkipsSignalCheck(attempt, o, tr) ==
    IF ~LoopCondition(attempt, o)
    THEN /\ Settle("rejected",
                   NewError("Error", "Retry attempts exhausted without throwing an error.", 0),
                   tr)
         /\ attemptNumber' = attempt
         /\ UNCHANGED <<normalizedError, context>>
    ELSE /\ attemptNumber' = attempt + 1
         /\ pc' = "input"
         /\ trace' = tr \o InputEvents(attempt + 1)
         /\ UNCHANGED <<settled, normalizedError, context>>

\* pRetry: one pass of the while loop after 'attempt' attempts, up to its first await
Iteration(attempt, o, tr) ==
    IF ~LoopCondition(attempt, o)
    THEN /\ Settle("rejected",
                   NewError("Error", "Retry attempts exhausted without throwing an error.", 0),
                   tr)
         /\ attemptNumber' = attempt
         /\ UNCHANGED <<normalizedError, context>>
    ELSE /\ attemptNumber' = attempt + 1
         /\ IF signal.state = "aborted"
            THEN OnAttemptFailureBegins(signal.reason, attempt + 1, o, tr)
            ELSE /\ pc' = "input"
                 /\ trace' = tr \o InputEvents(attempt + 1)
                 /\ UNCHANGED <<settled, normalizedError, context>>

\* a call that does not look at the signal before its first attempt
AbortedAtCallIgnored(sig) == FALSE

\* options.signal?.throwIfAborted() before the loop: does it throw
AbortedAtCall(sig) == sig.state = "aborted"

\* a call that looks at the signal before it validates its options
pRetryChecksSignalFirst ==
    /\ pc = "called"
    /\ IF AbortedAtCall(signal)
       THEN /\ Settle("rejected", signal.reason, trace)
            /\ UNCHANGED <<options, attemptNumber, startTime, normalizedError, context>>
       ELSE IF ValidationError(args) # Undefined
       THEN /\ Settle("rejected", ValidationError(args), trace)
            /\ UNCHANGED <<options, attemptNumber, startTime, normalizedError, context>>
       ELSE /\ options' = Normalized(args)
            /\ startTime' = now
            /\ Iteration(0, Normalized(args), trace)
    /\ UNCHANGED <<otherCall, args, signal, now, currentTime, timer>>

\* pRetry(input, options) is called: validation, defaults, the first attempt
pRetry ==
    /\ pc = "called"
    /\ IF ValidationError(args) # Undefined
       THEN /\ Settle("rejected", ValidationError(args), trace)
            /\ UNCHANGED <<options, attemptNumber, startTime, normalizedError, context>>
       ELSE /\ options' = Normalized(args)
            /\ IF AbortedAtCall(signal)
               THEN /\ Settle("rejected", signal.reason, trace)
                    /\ UNCHANGED <<attemptNumber, startTime, normalizedError, context>>
               ELSE /\ startTime' = now
                    /\ Iteration(0, Normalized(args), trace)
    /\ UNCHANGED <<otherCall, args, signal, now, currentTime, timer>>

\* a loop that increments the attempt number twice
LoopSkipsAttemptNumber ==
    /\ pc = "loop"
    /\ attemptNumber < MaxCalls
    /\ Iteration(attemptNumber + 1, options, trace)
    /\ UNCHANGED <<otherCall, args, options, signal, startTime, now, currentTime, timer>>

\* onAttemptFailure returned: pRetry goes round the loop
Loop ==
    /\ pc = "loop"
    /\ attemptNumber < MaxCalls
    /\ Iteration(attemptNumber, options, trace)
    /\ UNCHANGED <<otherCall, args, options, signal, startTime, now, currentTime, timer>>

\* a return that loses the operation's result
InputReturnsLosesResult(value) ==
    /\ pc = "input"
    /\ LET tr == Append(trace, Event("inputReturned", attemptNumber, value))
       IN IF signal.state = "aborted"
          THEN OnAttemptFailureBegins(signal.reason, attemptNumber, options, tr)
          ELSE /\ Settle("resolved", Undefined, tr)
               /\ UNCHANGED <<normalizedError, context>>
    /\ UNCHANGED <<otherCall, args, options, signal, attemptNumber, startTime, now, currentTime, timer>>

\* the operation returns (or resolves with) value
InputReturns(value) ==
    /\ pc = "input"
    /\ LET tr == Append(trace, Event("inputReturned", attemptNumber, value))
       IN IF signal.state = "aborted"
          THEN OnAttemptFailureBegins(signal.reason, attemptNumber, options, tr)
          ELSE /\ Settle("resolved", value, tr)
               /\ UNCHANGED <<normalizedError, context>>
    /\ UNCHANGED <<otherCall, args, options, signal, attemptNumber, startTime, now, currentTime, timer>>

\* the operation throws (or rejects with) error
InputThrows(error) ==
    /\ pc = "input"
    /\ OnAttemptFailureBegins(error, attemptNumber, options,
                              Append(trace, Event("inputThrew", attemptNumber, error)))
    /\ UNCHANGED <<otherCall, args, options, signal, attemptNumber, startTime, now, currentTime, timer>>

\* a budget check that forgets the deadline
BudgetExhaustedRetriesOnly(time, start, maxRetryTime, attempt, o) ==
    attempt >= AttemptLimit(o)

\* onAttemptFailure: no retry when the deadline has passed or no retry is left
BudgetExhausted(time, start, maxRetryTime, attempt, o) ==
    \/ time - start >= maxRetryTime
    \/ attempt >= AttemptLimit(o)

\* the message of error is an accessor without a setter: DOMException.prototype
\* has a getter only, while an Error has a data property of its own
HasReadOnlyMessage(error) == error.cls = "DOMException"

\* the callback that is running is a function that writes to object
RunningCallbackWrites(object) ==
    /\ pc \in {"onFailedAttempt", "shouldRetry"}
    /\ pc \in DOMAIN args
    /\ args[pc] # Undefined
    /\ args[pc].object = object

\* the assignment of the running callback has been made (a callback that
\* assigns nothing has nothing to do): such a callback assigns before it returns
CallbackHasWritten ==
    /\ RunningCallbackWrites("this") => options[args[pc].key] = args[pc].value.n
    /\ RunningCallbackWrites("context.error")
           => \/ normalizedError.msg = args[pc].value.s
              \/ HasReadOnlyMessage(normalizedError) /\ ~args[pc].strict

\* a deadline check against the clock as it was when the run started
OnFailedAttemptReturnsClockAtStart ==
    /\ pc = "onFailedAttempt"
    /\ CallbackHasWritten
    /\ currentTime' = startTime
    /\ LET tr == Append(trace, Event("onFailedAttemptReturned", attemptNumber, Undefined))
       IN IF BudgetExhausted(startTime, startTime, options.maxRetryTime, attemptNumber, options)
          THEN Settle("rejected", normalizedError, tr)
          ELSE /\ pc' = "shouldRetry"
               /\ settled' = settled
               /\ trace' = Append(tr, Event("shouldRetry", attemptNumber, context))
    /\ UNCHANGED <<otherCall, args, options, signal, attemptNumber, startTime, now,
                   normalizedError, context, timer>>

\* onFailedAttempt returned: the deadline and the budget are checked, shouldRetry is called
OnFailedAttemptReturns ==
    /\ pc = "onFailedAttempt"
    /\ CallbackHasWritten
    /\ currentTime' = now
    /\ LET tr == Append(trace, Event("onFailedAttemptReturned", attemptNumber, Undefined))
       IN IF BudgetExhausted(now, startTime, options.maxRetryTime, attemptNumber, options)
          THEN Settle("rejected", normalizedError, tr)
          ELSE /\ pc' = "shouldRetry"
               /\ settled' = settled
               /\ trace' = Append(tr, Event("shouldRetry", attemptNumber, context))
    /\ UNCHANGED <<otherCall, args, options, signal, attemptNumber, startTime, now,
                   normalizedError, context, timer>>

\* onFailedAttempt threw (or rejected with) error
OnFailedAttemptThrows(error) ==
    /\ pc = "onFailedAttempt"
    /\ Settle("rejected", error,
              Append(trace, Event("onFailedAttemptThrew", attemptNumber, error)))
    /\ UNCHANGED <<otherCall, args, options, signal, attemptNumber, startTime, now,
                   normalizedError, context, currentTime, timer>>

\* a wait that never registers onAbort
AddEventListenerNever(sig) == FALSE

\* options.signal?.addEventListener('abort', onAbort, {once: true}): is onAbort registered
AddEventListener(sig) == sig.state # "none"

\* onAttemptFailure: the delay awaited before the next attempt
FinalDelay(delayTime, timeLeft) == Min(delayTime, timeLeft)

\* shouldRetry resolved to value: rethrow, or wait for the delay
ShouldRetryReturns(value, randomTenths) ==
    /\ pc = "shouldRetry"
    /\ CallbackHasWritten
    /\ LET tr == Append(trace, Event("shouldRetryReturned", attemptNumber, value))
           delayTime == calculateDelay(attemptNumber, options, randomTenths)
           timeLeft == Minus(options.maxRetryTime, currentTime - startTime)
           finalDelay == FinalDelay(delayTime, timeLeft)
       IN IF ~Truthy(value) \/ timeLeft <= 0
          THEN /\ Settle("rejected", normalizedError, tr)
               /\ UNCHANGED <<timer, signal>>
          ELSE IF finalDelay > 0
          THEN /\ timer' = [pending |-> TRUE, at |-> now + finalDelay]
               /\ signal' = [signal EXCEPT !.listener = AddEventListener(signal)]
               /\ pc' = "delay"
               /\ settled' = settled
               /\ trace' = Append(tr, Event("setTimeout", attemptNumber, Num(finalDelay)))
          ELSE /\ IF signal.state = "aborted"
                  THEN Settle("rejected", signal.reason, tr)
                  ELSE /\ pc' = "loop"
                       /\ settled' = settled
                       /\ trace' = tr
               /\ UNCHANGED <<timer, signal>>
    /\ UNCHANGED <<otherCall, args, options, attemptNumber, startTime, now,
                   normalizedError, context, currentTime>>

\* a failing shouldRetry taken for a refusal to retry
ShouldRetryThrowsTakenAsFalse(error) ==
    /\ pc = "shouldRetry"
    /\ Settle("rejected", normalizedError,
              Append(trace, Event("shouldRetryThrew", attemptNumber, error)))
    /\ UNCHANGED <<otherCall, args, options, signal, attemptNumber, startTime, now,
                   normalizedError, context, currentTime, timer>>

\* shouldRetry threw (or rejected with) error
ShouldRetryThrows(error) ==
    /\ pc = "shouldRetry"
    /\ Settle("rejected", error,
              Append(trace, Event("shouldRetryThrew", attemptNumber, error)))
    /\ UNCHANGED <<otherCall, args, options, signal, attemptNumber, startTime, now,
                   normalizedError, context, currentTime, timer>>

\* the properties of the context a callback may try to write
ContextKeys == {"error", "attemptNumber", "retriesLeft"}

\* onFailedAttempt or shouldRetry assigns to context[key]: a frozen context makes
\* the assignment throw a TypeError in the callback, which rejects the run
CallbackWrites(key) ==
    /\ pc \in {"onFailedAttempt", "shouldRetry"}
    /\ IF context.frozen
       THEN LET error == NewError("TypeError",
                                  "Cannot assign to read only property '" \o key
                                      \o "' of object '#<Object>'",
                                  attemptNumber)
                threw == IF pc = "onFailedAttempt" THEN "onFailedAttemptThrew"
                                                   ELSE "shouldRetryThrew"
            IN /\ Settle("rejected", error, Append(trace, Event(threw, attemptNumber, error)))
               /\ UNCHANGED context
       ELSE /\ context' = [context EXCEPT ![key] = 0]
            /\ UNCHANGED <<pc, settled, trace>>
    /\ UNCHANGED <<otherCall, args, options, signal, attemptNumber, startTime, now,
                   normalizedError, currentTime, timer>>

\* options.onFailedAttempt(context) and options.shouldRetry(context) are method
\* calls: the callback assigns this[key] = value, which changes pRetry's copy of
\* the options
CallbackWritesThis ==
    /\ RunningCallbackWrites("this")
    /\ ~CallbackHasWritten
    /\ options' = [options EXCEPT ![args[pc].key] = args[pc].value.n]
    /\ UNCHANGED <<otherCall, args, signal, pc, attemptNumber, startTime, now,
                   normalizedError, context, currentTime, timer, settled, trace>>

\* the callback assigns context.error.message = value: the freeze is shallow and
\* context.error is the object onAttemptFailure holds as normalizedError. When
\* the error is a DOMException (the reason of the signal), its message cannot be
\* set: strict code throws a TypeError in the callback, which rejects the run,
\* and other code leaves the message as it is
CallbackWritesError ==
    /\ RunningCallbackWrites("context.error")
    /\ ~CallbackHasWritten
    /\ IF HasReadOnlyMessage(normalizedError)
       THEN LET error == NewError("TypeError",
                                  "Cannot set property message of  which has only a getter",
                                  attemptNumber)
                threw == IF pc = "onFailedAttempt" THEN "onFailedAttemptThrew"
                                                   ELSE "shouldRetryThrew"
            IN /\ Settle("rejected", error, Append(trace, Event(threw, attemptNumber, error)))
               /\ UNCHANGED <<normalizedError, context>>
       ELSE /\ normalizedError' = [normalizedError EXCEPT !.msg = args[pc].value.s]
            /\ context' = [context EXCEPT !.error = normalizedError']
            /\ UNCHANGED <<pc, settled, trace>>
    /\ UNCHANGED <<otherCall, args, options, signal, attemptNumber, startTime, now,
                   currentTime, timer>>

\* the values of Date.now() at which the callback of a timer due at time at may
\* run, the clock being at time: timers are started on a clock of their own, so
\* the callback may run a millisecond before Date.now() reaches at; a timer that
\* is overdue, the clock having passed at while the event loop was busy, runs
\* at the time it is
FireTimes(time, at) == {Max(time, at - 1), Max(time, at)}

\* the delay timer fires, at one of the times a timer may fire: the listener is
\* removed and the wait resolves
TimerFires ==
    /\ pc = "delay"
    /\ timer.pending
    /\ now' \in FireTimes(now, timer.at)
    /\ timer' = [timer EXCEPT !.pending = FALSE]
    /\ signal' = [signal EXCEPT !.listener = FALSE]
    /\ pc' = "delayed"
    /\ trace' = Append(trace, Event("timerFired", attemptNumber, Undefined))
    /\ UNCHANGED <<otherCall, args, options, attemptNumber, startTime, normalizedError, context,
                   currentTime, settled>>

\* onAttemptFailure resumes after the wait: signal.throwIfAborted(), then it returns
DelayResumes ==
    /\ pc = "delayed"
    /\ IF signal.state = "aborted"
       THEN Settle("rejected", signal.reason, trace)
       ELSE /\ pc' = "loop"
            /\ UNCHANGED <<settled, trace>>
    /\ UNCHANGED <<otherCall, args, options, signal, attemptNumber, startTime, now,
                   normalizedError, context, currentTime, timer>>

\* the states in which the run is suspended or about to resume
Running == pc \in {"input", "onFailedAttempt", "shouldRetry", "delay", "delayed", "loop"}

\* an abort that also ends the wait for the operation
AbortInterruptsOperation(reason) ==
    /\ Running
    /\ signal.state = "pending"
    /\ LET tr == Append(trace, Event("abort", attemptNumber, reason))
       IN IF pc \in {"delay", "input"}
          THEN /\ timer' = [timer EXCEPT !.pending = FALSE]
               /\ signal' = [state |-> "aborted", reason |-> reason, listener |-> FALSE]
               /\ Settle("rejected", reason,
                         Append(tr, Event("clearTimeout", attemptNumber, Undefined)))
          ELSE /\ signal' = [signal EXCEPT !.state = "aborted", !.reason = reason]
               /\ trace' = tr
               /\ UNCHANGED <<timer, pc, settled>>
    /\ UNCHANGED <<otherCall, args, options, attemptNumber, startTime, now,
                   normalizedError, context, currentTime>>

\* an onAbort that rejects without clearing the timer
AbortLeavesTimerPending(reason) ==
    /\ Running
    /\ signal.state = "pending"
    /\ LET tr == Append(trace, Event("abort", attemptNumber, reason))
       IN IF pc = "delay" /\ signal.listener
          THEN /\ signal' = [state |-> "aborted", reason |-> reason, listener |-> FALSE]
               /\ Settle("rejected", reason, tr)
               /\ UNCHANGED timer
          ELSE /\ signal' = [signal EXCEPT !.state = "aborted", !.reason = reason]
               /\ trace' = tr
               /\ UNCHANGED <<timer, pc, settled>>
    /\ UNCHANGED <<otherCall, args, options, attemptNumber, startTime, now,
                   normalizedError, context, currentTime>>

\* controller.abort(reason): the abort event runs onAbort if it is registered
Abort(reason) ==
    /\ Running
    /\ signal.state = "pending"
    /\ LET tr == Append(trace, Event("abort", attemptNumber, reason))
       IN IF pc = "delay" /\ signal.listener
          THEN /\ timer' = [timer EXCEPT !.pending = FALSE]
               /\ signal' = [state |-> "aborted", reason |-> reason, listener |-> FALSE]
               /\ Settle("rejected", reason,
                         Append(tr, Event("clearTimeout", attemptNumber, Undefined)))
          ELSE /\ signal' = [signal EXCEPT !.state = "aborted", !.reason = reason]
               /\ trace' = tr
               /\ UNCHANGED <<timer, pc, settled>>
    /\ UNCHANGED <<otherCall, args, options, attemptNumber, startTime, now,
                   normalizedError, context, currentTime>>

\* a millisecond passes while the run is suspended
Tick ==
    /\ pc \in {"input", "onFailedAttempt", "shouldRetry"} \/ (pc = "delay" /\ timer.pending)
    /\ now < ClockAtCall + MaxTicks
    /\ now' = now + 1
    /\ UNCHANGED <<otherCall, args, options, signal, pc, attemptNumber, startTime,
                   normalizedError, context, currentTime, timer, settled, trace>>

Next ==
    \/ pRetry
    \/ Loop
    \/ \E value \in ReturnValues : InputReturns(value)
    \/ \E error \in ThrownValues(attemptNumber) : InputThrows(error)
    \/ OnFailedAttemptReturns
    \/ \E error \in CallbackThrownValues(attemptNumber) : OnFailedAttemptThrows(error)
    \/ \E value \in ShouldRetryValues, randomTenths \in RandomTenths :
           ShouldRetryReturns(value, randomTenths)
    \/ \E error \in CallbackThrownValues(attemptNumber) : ShouldRetryThrows(error)
    \/ \E key \in ContextKeys : CallbackWrites(key)
    \/ CallbackWritesThis
    \/ CallbackWritesError
    \/ TimerFires
    \/ DelayResumes
    \/ \E reason \in AbortReasons : Abort(reason)
    \/ Tick

Spec == Init /\ [][Next]_vars

\* what the event loop guarantees once the operation and the callbacks settle
\* and the timers fire: every continuation of the run is eventually run
Fairness ==
    /\ WF_vars(pRetry)
    /\ WF_vars(Loop)
    /\ WF_vars(\/ \E value \in ReturnValues : InputReturns(value)
               \/ \E error \in ThrownValues(attemptNumber) : InputThrows(error))
    /\ WF_vars(\/ OnFailedAttemptReturns
               \/ \E error \in CallbackThrownValues(attemptNumber) :
                      OnFailedAttemptThrows(error))
    /\ WF_vars(\/ \E value \in ShouldRetryValues, randomTenths \in RandomTenths :
                      ShouldRetryReturns(value, randomTenths)
               \/ \E error \in CallbackThrownValues(attemptNumber) :
                      ShouldRetryThrows(error))
    /\ WF_vars(CallbackWritesThis \/ CallbackWritesError)
    /\ WF_vars(TimerFires)
    /\ WF_vars(DelayResumes)

FairSpec == Spec /\ Fairness

---------------------------------------------------------------------------
(* makeRetriable *)

\* how many times the function makeRetriable returned is called
MaxWrapperCalls == 2

\* the options given to makeRetriable, with no call made yet
RetriableOptions ==
    [retries : {Num(0), Num(1)},
     factor : {Undefined},
     minTimeout : {Num(1)},
     maxTimeout : {Undefined},
     maxRetryTime : {Undefined},
     randomize : {Undefined},
     forever : {FALSE},
     shouldSkip : {Undefined},
     this : {Undefined},
     arguments_ : {<<>>}]

\* the receivers and the arguments the returned function is called with
Receivers == {Undefined, Str("receiver")}
ArgumentLists == {<<>>, <<Str("a"), Num(7)>>}

\* makeRetriable(function_, options) has returned its function
RetriableInit ==
    /\ args \in RetriableOptions
    /\ signal = NoSignal
    /\ options = args
    /\ pc = "made"
    /\ attemptNumber = 0
    /\ startTime = 0
    /\ now = ClockAtCall
    /\ normalizedError = Undefined
    /\ context = Undefined
    /\ currentTime = 0
    /\ timer = NoTimer
    /\ settled = Undefined
    /\ trace = <<Event("makeRetriable", 0, Undefined)>>
    /\ otherCall = Undefined

\* the function makeRetriable returned is called with a receiver and arguments:
\* it calls pRetry with a closure and the options; the history starts over
Retriable(receiver, arguments_) ==
    /\ pc \in {"made", "resolved", "rejected"}
    /\ trace[1].at < MaxWrapperCalls
    /\ args' = [args EXCEPT !.this = receiver, !.arguments_ = arguments_]
    /\ options' = args'
    /\ pc' = "called"
    /\ attemptNumber' = 0
    /\ normalizedError' = Undefined
    /\ context' = Undefined
    /\ timer' = NoTimer
    /\ settled' = Undefined
    /\ trace' = <<Event("retriable", trace[1].at + 1,
                        [this |-> receiver, arguments_ |-> arguments_])>>
    /\ UNCHANGED <<otherCall, signal, startTime, now, currentTime>>

RetriableNext ==
    \/ \E receiver \in Receivers, arguments_ \in ArgumentLists :
           Retriable(receiver, arguments_)
    \/ pRetry
    \/ Loop
    \/ \E value \in ReturnValues : InputReturns(value)
    \/ \E error \in ThrownValues(attemptNumber) : InputThrows(error)
    \/ OnFailedAttemptReturns
    \/ \E error \in CallbackThrownValues(attemptNumber) : OnFailedAttemptThrows(error)
    \/ \E value \in ShouldRetryValues, randomTenths \in RandomTenths :
           ShouldRetryReturns(value, randomTenths)
    \/ \E error \in CallbackThrownValues(attemptNumber) : ShouldRetryThrows(error)
    \/ TimerFires
    \/ DelayResumes
    \/ Tick

RetriableSpec == RetriableInit /\ [][RetriableNext]_vars

---------------------------------------------------------------------------
(* Two calls in flight *)

\* the option objects two concurrent calls are both given
ConcurrentOptions ==
    [retries : {Num(1), Num(2)},
     factor : {Undefined},
     minTimeout : {Num(1)},
     maxTimeout : {Undefined},
     maxRetryTime : {Undefined},
     randomize : {Undefined},
     forever : {FALSE},
     shouldSkip : {Undefined}]

\* the locals of the call that is running: its copy of the options, its
\* position, and the variables declared in pRetry and onAttemptFailure
Locals ==
    [options |-> options, pc |-> pc, attemptNumber |-> attemptNumber,
     startTime |-> startTime, normalizedError |-> normalizedError,
     context |-> context, currentTime |-> currentTime, timer |-> timer,
     settled |-> settled, trace |-> trace]

\* pRetry has been called twice with the same options object and neither call
\* has run yet
ConcurrentInit ==
    /\ args \in ConcurrentOptions
    /\ signal = NoSignal
    /\ options = args
    /\ pc = "called"
    /\ attemptNumber = 0
    /\ startTime = 0
    /\ now = ClockAtCall
    /\ normalizedError = Undefined
    /\ context = Undefined
    /\ currentTime = 0
    /\ timer = NoTimer
    /\ settled = Undefined
    /\ trace = <<>>
    /\ otherCall = Locals

\* a switch that leaves the attempt counter where the other call left it
SwitchSharesAttemptNumber ==
    /\ otherCall # Undefined
    /\ otherCall' = Locals
    /\ options' = otherCall.options
    /\ pc' = otherCall.pc
    /\ attemptNumber' = attemptNumber
    /\ startTime' = otherCall.startTime
    /\ normalizedError' = otherCall.normalizedError
    /\ context' = otherCall.context
    /\ currentTime' = otherCall.currentTime
    /\ timer' = otherCall.timer
    /\ settled' = otherCall.settled
    /\ trace' = otherCall.trace
    /\ UNCHANGED <<args, signal, now>>

\* the running call is suspended at an await and the event loop resumes the
\* other call: each call has its own locals, the options object the caller
\* passed and the clock are the same for both
Switch ==
    /\ otherCall # Undefined
    /\ otherCall' = Locals
    /\ options' = otherCall.options
    /\ pc' = otherCall.pc
    /\ attemptNumber' = otherCall.attemptNumber
    /\ startTime' = otherCall.startTime
    /\ normalizedError' = otherCall.normalizedError
    /\ context' = otherCall.context
    /\ currentTime' = otherCall.currentTime
    /\ timer' = otherCall.timer
    /\ settled' = otherCall.settled
    /\ trace' = otherCall.trace
    /\ UNCHANGED <<args, signal, now>>

ConcurrentNext ==
    \/ Switch
    \/ pRetry
    \/ Loop
    \/ \E value \in ReturnValues : InputReturns(value)
    \/ \E error \in ThrownValues(attemptNumber) : InputThrows(error)
    \/ OnFailedAttemptReturns
    \/ \E error \in CallbackThrownValues(attemptNumber) : OnFailedAttemptThrows(error)
    \/ \E value \in ShouldRetryValues, randomTenths \in RandomTenths :
           ShouldRetryReturns(value, randomTenths)
    \/ \E error \in CallbackThrownValues(attemptNumber) : ShouldRetryThrows(error)
    \/ TimerFires
    \/ DelayResumes

ConcurrentSpec == ConcurrentInit /\ [][ConcurrentNext]_vars

---------------------------------------------------------------------------
(* Reading the history *)

\* the positions of the events named ev
Indices(ev) == {i \in DOMAIN trace : trace[i].ev = ev}

\* how many times ev happened
Count(ev) == Cardinality(Indices(ev))

\* the last event
LastEvent == trace[Len(trace)]

\* the options were valid and the first attempt was made
Started == Len(trace) > 0

\* an Error that is neither a TypeError nor an AbortError
IsPlainRetryable(value) ==
    IsError(value) /\ value.cls \notin {"TypeError", "AbortError"}

\* the falsy values shouldRetry resolves to in the model
FalsyResults == {Bool(FALSE), Undefined}

\* the retry policy the caller gave, as pRetry validated and normalized it
Policy == Normalized(args)

\* a and b are one Error object: a write to its message leaves it the same object
SameError(a, b) ==
    /\ IsError(a)
    /\ IsError(b)
    /\ [a EXCEPT !.msg = ""] = [b EXCEPT !.msg = ""]

\* two records of one context: the same error object, attemptNumber and retriesLeft
SameContext(c, d) ==
    /\ SameError(c.error, d.error)
    /\ c.attemptNumber = d.attemptNumber
    /\ c.retriesLeft = d.retriesLeft
    /\ c.frozen = d.frozen

\* no callback has thrown
NoCallbackThrew == Count("onFailedAttemptThrew") = 0 /\ Count("shouldRetryThrew") = 0

---------------------------------------------------------------------------
(* Claims *)

\* the run of C1: finite retries, no deadline, no cancellation, every attempt failed
\* with a retryable error, no callback threw, shouldRetry always agreed
AlwaysFailingRun ==
    /\ Started
    /\ Policy.retries # Infinity
    /\ Policy.maxRetryTime = Infinity
    /\ signal.state # "aborted"
    /\ NoCallbackThrew
    /\ Count("inputReturned") = 0
    /\ \A i \in Indices("inputThrew") : IsPlainRetryable(trace[i].arg)
    /\ \A i \in Indices("shouldRetryReturned") : trace[i].arg = Bool(TRUE)

\* C1: when every attempt fails with a retryable error and nothing else ends the run,
\* a run with finite retries = n rejects after exactly n + 1 invocations of the
\* operation and exactly n + 1 invocations of onFailedAttempt, and never exceeds
\* them before it rejects.
C1_AlwaysFailingRunsAllAttempts ==
    AlwaysFailingRun =>
        /\ Count("input") <= Policy.retries + 1
        /\ Count("onFailedAttempt") <= Policy.retries + 1
        /\ pc = "rejected" =>
               /\ Count("input") = Policy.retries + 1
               /\ Count("onFailedAttempt") = Policy.retries + 1
               /\ Count("onFailedAttemptReturned") = Policy.retries + 1

\* C2: when the run resolves, the operation's last invocation returned, the run
\* resolved with exactly the returned value (null included), every earlier invocation
\* failed, and nothing was invoked after the return: N failures, N + 1 invocations.
C2_ResolvesWithReturnedValue ==
    pc = "resolved" =>
        /\ LastEvent.ev = "inputReturned"
        /\ settled = LastEvent.arg
        /\ Count("inputReturned") = 1
        /\ Count("input") = Count("inputThrew") + 1
        /\ Count("input") = LastEvent.at

C2_Witness ==
    /\ Started
    /\ pc = "resolved"
    /\ settled = Null
    /\ Count("inputThrew") = 2
    /\ Count("input") = 3

\* the last invocation of the operation threw an Error that may be retried
LastAttemptFailedRetryably ==
    /\ Indices("inputThrew") # {}
    /\ \E i \in Indices("inputThrew") :
           /\ trace[i].at = attemptNumber
           /\ IsError(trace[i].arg)
           /\ ~IsAbortError(trace[i].arg)
           /\ (IsTypeError(trace[i].arg) => isNetworkError(trace[i].arg))

\* the error thrown by the last invocation of the operation
LastThrown ==
    trace[CHOOSE i \in Indices("inputThrew") :
              \A j \in Indices("inputThrew") : j <= i].arg

\* shouldRetry refused to retry the current attempt
ShouldRetryRefused ==
    \E i \in Indices("shouldRetryReturned") :
        trace[i].at = attemptNumber /\ trace[i].arg \in FalsyResults

\* C3: a run that rejects after a retryable failure of its last attempt, without a
\* callback having thrown, without cancellation and without a refusal of shouldRetry
\* (so: the budget or the deadline ended it), rejects with the very error that
\* attempt raised.
C3_ExhaustedRejectsWithLastError ==
    (/\ pc = "rejected"
     /\ Started
     /\ signal.state # "aborted"
     /\ NoCallbackThrew
     /\ LastAttemptFailedRetryably
     /\ ~ShouldRetryRefused)
        => /\ SameError(settled, LastThrown)
           /\ settled.id = attemptNumber

\* C4: an AbortError thrown by the operation ends the run at once: it is the last
\* thing that happened (no callback, no timer, no further attempt), and the run
\* rejected with the underlying cause, the wrapped Error itself or an Error with the
\* given message, never with the wrapper.
C4_AbortErrorRejectsWithCause ==
    \A i \in Indices("inputThrew") :
        IsAbortError(trace[i].arg) =>
            /\ i = Len(trace)
            /\ pc = "rejected"
            /\ settled \in {NewError("Error", "fixture", trace[i].at),
                            NewError("Error", "stop", trace[i].at)}
            /\ settled.msg = trace[i].arg.msg

C4_Witness ==
    /\ Started
    /\ pc = "rejected"
    /\ LastEvent.ev = "inputThrew"
    /\ LastEvent.arg = AbortError(Str("stop"), 2)
    /\ options.retries = Infinity
    /\ settled = NewError("Error", "stop", 2)

\* C5: a TypeError the network-error predicate rejects ends the run at once with that
\* same error and no callback; a TypeError it accepts is handed to onFailedAttempt in
\* the context of that attempt, as for any retryable error.
C5_TypeErrorRetriedIffNetworkError ==
    \A i \in Indices("inputThrew") :
        IsTypeError(trace[i].arg) =>
            IF isNetworkError(trace[i].arg)
            THEN /\ Len(trace) > i
                 /\ trace[i + 1].ev = "onFailedAttempt"
                 /\ trace[i + 1].arg.error = trace[i].arg
                 /\ trace[i + 1].arg.attemptNumber = trace[i].at
            ELSE /\ i = Len(trace)
                 /\ pc = "rejected"
                 /\ settled = trace[i].arg

\* a network TypeError was retried: the operation was invoked again after it
C5_Witness ==
    /\ Started
    /\ Len(trace) >= 9
    /\ trace[2].ev = "inputThrew"
    /\ trace[2].arg = NewError("TypeError", "Failed to fetch", 1)
    /\ trace[3].ev = "onFailedAttempt"
    /\ trace[5].ev = "shouldRetry"
    /\ \E j \in Indices("input") : trace[j].at = 2
    /\ LastEvent.ev = "inputThrew"
    /\ LastEvent.arg = NewError("TypeError", "type-error-fixture", 2)
    /\ pc = "rejected"

\* C6: when onFailedAttempt or shouldRetry throws e, that is the last thing that
\* happened and the run rejected with e itself.
C6_CallbackFailureRejects ==
    \A i \in Indices("onFailedAttemptThrew") \cup Indices("shouldRetryThrew") :
        /\ i = Len(trace)
        /\ pc = "rejected"
        /\ settled = trace[i].arg

C6_Witness ==
    /\ Started
    /\ pc = "rejected"
    /\ LastEvent.ev = "shouldRetryThrew"
    /\ settled = Str("thrown from callback")
    /\ options.retries = MaxRetries
    /\ attemptNumber = 1

\* C7: when shouldRetry resolves to a falsy value, that is the last thing that
\* happened (no timer, no further attempt), the run rejected with the error of the
\* context shouldRetry was given, which is the error the operation threw when it
\* threw an Error, and onFailedAttempt was invoked exactly once for that attempt.
C7_ShouldRetryFalseRejects ==
    \A i \in Indices("shouldRetryReturned") :
        trace[i].arg \in FalsyResults =>
            /\ i = Len(trace)
            /\ pc = "rejected"
            /\ \E j \in Indices("shouldRetry") : j < i /\ trace[j].at = trace[i].at
            /\ \A j \in Indices("shouldRetry") :
                   trace[j].at = trace[i].at => SameError(settled, trace[j].arg.error)
            /\ \A j \in Indices("inputThrew") :
                   (trace[j].at = trace[i].at /\ IsError(trace[j].arg))
                       => SameError(settled, trace[j].arg)
            /\ Cardinality({j \in Indices("onFailedAttempt") : trace[j].at = trace[i].at}) = 1

C7_Witness ==
    /\ Started
    /\ pc = "rejected"
    /\ LastEvent.ev = "shouldRetryReturned"
    /\ LastEvent.arg = Undefined
    /\ options.retries = Infinity
    /\ attemptNumber = 2
    /\ settled = NewError("Error", "fixture", 2)

\* C8: whenever shouldRetry is invoked for a failure, onFailedAttempt was invoked
\* before it with the same context and had returned before it.
C8_OnFailedAttemptBeforeShouldRetry ==
    \A i \in Indices("shouldRetry") :
        \E j \in Indices("onFailedAttempt"), k \in Indices("onFailedAttemptReturned") :
            /\ j < k
            /\ k < i
            /\ trace[j].at = trace[i].at
            /\ trace[k].at = trace[i].at
            /\ SameContext(trace[j].arg, trace[i].arg)

C8_Witness ==
    /\ Started
    /\ Count("shouldRetry") = 2
    /\ LastEvent.ev = "shouldRetry"
    /\ pc = "shouldRetry"

\* C9: at the moment shouldRetry is invoked, the attempt number is below
\* retries + 1 and the time elapsed since the start is below maxRetryTime.
C9_ShouldRetryOnlyWithinBudget ==
    [][(pc' = "shouldRetry" /\ pc # "shouldRetry") =>
           /\ attemptNumber' < Plus(Policy.retries, 1)
           /\ now' - startTime' < Policy.maxRetryTime]_vars

\* C10: with finite retries = n the operation is invoked at most n + 1 times.
C10_AtMostRetriesPlusOneInvocations ==
    (Started /\ Policy.retries # Infinity) => Count("input") <= Policy.retries + 1

---------------------------------------------------------------------------
(* Cancellation *)

\* C11: when pRetry is called with valid options and a signal that is already
\* aborted, it rejects with the signal's reason, and neither the operation nor
\* a callback is invoked.
C11_AbortedAtCallRejectsWithReason ==
    (/\ pc # "called"
     /\ signal.state = "aborted"
     /\ Count("abort") = 0
     /\ ValidationError(args) = Undefined)
        => /\ pc = "rejected"
           /\ settled = signal.reason
           /\ trace = <<>>

C11_Witness ==
    /\ pc = "rejected"
    /\ signal.state = "aborted"
    /\ signal.reason = Str("cancelled")
    /\ settled = Str("cancelled")
    /\ args.retries = Num(MaxRetries)
    /\ trace = <<>>

\* the abort events that happened while the run was waiting in the delay
AbortsDuringDelay ==
    {i \in Indices("abort") : i > 1 /\ trace[i - 1].ev = "setTimeout"}

\* C12: when the signal is aborted while the run waits in the inter-attempt
\* delay, the wait ends at once: the pending timer is cleared, pRetry rejects
\* with the signal's reason, and no further attempt is started.
C12_AbortDuringDelayRejectsAtOnce ==
    \A i \in AbortsDuringDelay :
        /\ Len(trace) = i + 1
        /\ trace[i + 1].ev = "clearTimeout"
        /\ pc = "rejected"
        /\ settled = trace[i].arg
        /\ ~timer.pending
        /\ ~signal.listener
        /\ Count("timerFired") = trace[i].at - 1
        /\ Count("input") = trace[i].at

C12_Witness ==
    /\ AbortsDuringDelay # {}
    /\ pc = "rejected"
    /\ settled = Str("cancelled")
    /\ LastEvent.ev = "clearTimeout"
    /\ now < timer.at

\* the abort events that happened while an attempt was in flight and that
\* were followed by the successful completion of that attempt
AbortsBeforeSuccess ==
    {i \in Indices("abort") :
        /\ i > 1
        /\ trace[i - 1].ev = "input"
        /\ Len(trace) > i
        /\ trace[i + 1].ev = "inputReturned"}

\* C13: when the signal is aborted while an attempt is in flight and the
\* attempt then completes successfully, pRetry does not resolve with the
\* returned value: it rejects with the cancellation reason.
C13_AbortBeatsSuccess ==
    \A i \in AbortsBeforeSuccess :
        /\ pc # "resolved"
        /\ pc = "rejected" => settled = trace[i].arg

\* C14: an abort with a reason at any point before the run has settled makes
\* pRetry reject with that reason, whatever the operation does and whatever
\* the retry policy allows.
C14_AbortAlwaysRejectsWithReason ==
    (Count("abort") > 0 /\ pc \in {"resolved", "rejected"})
        => pc = "rejected" /\ \A i \in Indices("abort") : settled = trace[i].arg

\* the abort events that happened while the operation or the delay was awaited
AbortsWhileSuspended ==
    {i \in Indices("abort") : i > 1 /\ trace[i - 1].ev \in {"input", "setTimeout"}}

\* C15 as stated: an abort while the run awaits the operation or the delay
\* ends the run at that point, without waiting for the operation to settle.
C15_BothSuspensionPointsRace ==
    \A i \in AbortsWhileSuspended :
        /\ pc = "rejected"
        /\ settled = trace[i].arg
        /\ Count("inputReturned") + Count("inputThrew") < trace[i].at

\* the signal goes from pending to aborted in this step
AbortStep == signal.state = "pending" /\ signal'.state = "aborted"

\* C15: only the inter-attempt delay races against cancellation. An abort
\* during the delay ends the run at that point with the signal's reason; an
\* abort while the operation (or a callback) is awaited changes nothing but the
\* signal: the run stays suspended until the operation settles, and only then
\* looks at the signal.
C15_OnlyTheDelayRaces ==
    /\ [][AbortStep =>
            IF pc = "delay"
            THEN pc' = "rejected" /\ settled' = signal'.reason /\ ~timer'.pending
            ELSE pc' = pc /\ settled' = settled /\ timer' = timer]_vars
    /\ [](\A i \in Indices("abort") :
            (i > 1 /\ trace[i - 1].ev = "input" /\ pc \in {"resolved", "rejected"})
                => /\ Len(trace) > i
                   /\ trace[i + 1].ev \in {"inputReturned", "inputThrew"})

C15_Witness ==
    /\ Started
    /\ LastEvent.ev = "abort"
    /\ Len(trace) > 1
    /\ trace[Len(trace) - 1].ev = "input"
    /\ pc = "input"
    /\ signal.state = "aborted"
    /\ settled = Undefined

---------------------------------------------------------------------------
(* Contexts *)

\* the events that carry a context to a callback
ContextEvents == Indices("onFailedAttempt") \cup Indices("shouldRetry")

\* C16: the context built for the failure of attempt k has retriesLeft equal
\* to retries - (k - 1): retries on the first failure, one less per failed
\* attempt, never negative when retries is finite, and Infinity on every
\* failure when retries is Infinity.
C16_RetriesLeftCountsDown ==
    \A i \in ContextEvents :
        LET k == trace[i].at
            ctx == trace[i].arg
        IN /\ ctx.attemptNumber = k
           /\ IF Policy.retries = Infinity
              THEN ctx.retriesLeft = Infinity
              ELSE /\ ctx.retriesLeft = Policy.retries - (k - 1)
                   /\ ctx.retriesLeft >= 0
           /\ k = 1 => ctx.retriesLeft = Policy.retries
           /\ \A j \in Indices("onFailedAttempt") :
                  (i \in Indices("onFailedAttempt") /\ trace[j].at = k + 1
                       /\ Policy.retries # Infinity)
                      => trace[j].arg.retriesLeft = ctx.retriesLeft - 1

---------------------------------------------------------------------------
(* Delays *)

\* the options ask for no randomization and no deadline
PlainBackoff == args.randomize = Undefined /\ args.maxRetryTime = Undefined

\* the waits the run has started, as indices of the history
Waits == Indices("setTimeout")

\* the failures after which the run went on to the next attempt without a wait
RetriesWithoutWait ==
    {i \in Indices("shouldRetryReturned") :
        /\ trace[i].arg \notin FalsyResults
        /\ Len(trace) > i
        /\ trace[i + 1].ev = "input"}

\* min(round(minTimeout * factor^(k - 1)), maxTimeout), factor being n / d
BackoffFormula(minTimeout, n, d, maxTimeout, k) ==
    Min((2 * minTimeout * Pow(n, k - 1) + Pow(d, k - 1)) \div (2 * Pow(d, k - 1)), maxTimeout)

\* C17: with randomize off and no deadline, for every minTimeout >= 0
\* (0 included), factor > 0 and maxTimeout, the delay after the k-th failed
\* attempt is min(round(minTimeout * factor^(k - 1)), maxTimeout).
C17_DelayFollowsFormula ==
    (Started /\ PlainBackoff /\ args.factor # Num(0))
        => LET expected(k) == BackoffFormula(options.minTimeout, options.factor,
                                             options.factorDen, options.maxTimeout, k)
           IN /\ \A i \in Waits : trace[i].arg.n = expected(trace[i].at)
              /\ \A i \in RetriesWithoutWait : expected(trace[i].at) = 0

\* the delays of the policy minTimeout = 100, factor = 3, maxTimeout = 150
CappedExample ==
    LET o == [minTimeout |-> 100, factor |-> 3, factorDen |-> 1, maxTimeout |-> 150,
              randomize |-> FALSE]
    IN <<calculateDelay(1, o, 10), calculateDelay(2, o, 10), calculateDelay(3, o, 10)>>

\* C18: no inter-attempt delay ever exceeds the maxTimeout the run was given,
\* whatever minTimeout, factor, randomize and the attempt number are
\* (minTimeout = 100, factor = 3, maxTimeout = 150 gives 100, 150, 150).
C18_DelayNeverExceedsMaxTimeout ==
    Started
        => /\ \A i \in Waits : trace[i].arg.n <= Policy.maxTimeout
           /\ CappedExample = <<100, 150, 150>>

\* pRetry rejected the factor option before doing anything
FactorRejected ==
    /\ pc = "rejected"
    /\ trace = <<>>
    /\ settled = NewError("TypeError", "Expected 'factor' to be >= 0.", 0)

\* every wait of the run lasts the same time
StableDelays ==
    /\ \A i, j \in Waits : trace[i].arg.n = trace[j].arg.n
    /\ RetriesWithoutWait # {} => Waits = {}

\* the run uses a factor of 1: without randomization and deadline its delays
\* do not grow
FactorIsOne ==
    /\ options.factor = 1
    /\ options.factorDen = 1
    /\ (PlainBackoff => StableDelays)

\* the factor option given is a number below zero
NegativeFactor == args.factor # Undefined /\ args.factor.t = "number" /\ args.factor.n < 0

\* C19 as stated: every factor <= 0, zero and negative alike, is accepted and
\* normalized to 1, so that every delay has the same value.
C19_NonPositiveFactorAccepted ==
    (pc # "called" /\ (args.factor = Num(0) \/ NegativeFactor))
        => /\ ~FactorRejected
           /\ Started => FactorIsOne

\* the factor of the options is 1
FactorNormalized == options.factor = 1 /\ options.factorDen = 1

\* the step from shouldRetry to the wait (or, without a wait, to the next
\* attempt) of a run whose factor is 1, without randomization and deadline
StableDelayStep ==
    /\ pc = "shouldRetry"
    /\ pc' \in {"delay", "loop"}
    /\ PlainBackoff
    /\ FactorNormalized

\* C19: a factor of 0 is accepted and normalized to 1, so that with randomize
\* off and no deadline every delay is minTimeout (at least 1 ms) capped by
\* maxTimeout, whatever the attempt number; a negative factor is rejected with
\* a validation error before the first attempt.
C19_ZeroFactorNormalizedNegativeRejected ==
    [][/\ (pc' # "called" /\ args.factor = Num(0))
              => /\ ~FactorRejected'
                 /\ Started' => FactorNormalized'
       /\ StableDelayStep
              => (IF pc' = "delay" THEN timer'.at - now ELSE 0)
                     = Min(Max(options.minTimeout, 1), options.maxTimeout)
       /\ (pc' # "called" /\ NegativeFactor /\ validateRetries(args.retries) = Undefined
               /\ ~args.forever)
              => FactorRejected']_vars

C19_Witness ==
    /\ Started
    /\ args.factor = Num(0)
    /\ PlainBackoff
    /\ options.minTimeout = 2
    /\ options.maxTimeout = Infinity
    /\ \E i, j \in Waits :
           /\ trace[i].at = 1 /\ trace[j].at = 2
           /\ trace[i].arg.n = 2 /\ trace[j].arg.n = 2

\* a call with a negative factor, rejected although the signal is aborted
C19_WitnessNegative ==
    /\ NegativeFactor
    /\ FactorRejected
    /\ signal.state = "aborted"

---------------------------------------------------------------------------
(* Validation *)

\* the value given is neither absent nor a number that is zero or more
NegativeOrNotANumber(value) ==
    value # Undefined /\ (value.t # "number" \/ value.n < 0)

\* the policy given is invalid
InvalidPolicy ==
    \/ NegativeOrNotANumber(args.retries)
    \/ NegativeOrNotANumber(args.minTimeout)
    \/ NegativeOrNotANumber(args.maxTimeout)
    \/ NegativeOrNotANumber(args.maxRetryTime)
    \/ args.forever

\* the value is an error made by the validation of the options
IsValidationError(value) ==
    /\ IsError(value)
    /\ value.id = 0
    /\ \/ value.cls = "TypeError" /\ SubSeq(value.msg, 1, 10) = "Expected '"
       \/ value.cls = "Error" /\ SubSeq(value.msg, 1, 20) = "The 'forever' option"

\* C20: with an invalid policy (retries negative, NaN or not a number;
\* minTimeout, maxTimeout or maxRetryTime negative or not a number; the forever
\* key present) pRetry fails with a validation error before the first attempt:
\* the operation and the callbacks are never invoked, and the validation error
\* wins over an already aborted signal.
C20_InvalidPolicyFailsBeforeFirstAttempt ==
    (pc # "called" /\ InvalidPolicy)
        => /\ pc = "rejected"
           /\ trace = <<>>
           /\ attemptNumber = 0
           /\ IsValidationError(settled)
           /\ settled # signal.reason

C20_Witness ==
    /\ pc = "rejected"
    /\ signal.state = "aborted"
    /\ signal.reason \in AbortReasons
    /\ args.maxRetryTime = Num(0 - 1)
    /\ args.factor = Undefined /\ args.minTimeout = Undefined /\ args.maxTimeout = Undefined
    /\ ~args.forever
    /\ settled = NewError("TypeError", "Expected 'maxRetryTime' to be >= 0.", 0)
    /\ trace = <<>>

---------------------------------------------------------------------------
(* The deadline *)

\* the first attempt failed with a retryable error and onFailedAttempt returned
FirstAttemptFailedRetryably ==
    /\ \E i \in Indices("inputThrew") :
           /\ trace[i].at = 1
           /\ IsError(trace[i].arg)
           /\ ~IsAbortError(trace[i].arg)
           /\ (IsTypeError(trace[i].arg) => isNetworkError(trace[i].arg))
    /\ \E i \in Indices("onFailedAttemptReturned") : trace[i].at = 1

\* C21: with maxRetryTime = 0, whatever retries (Infinity included) and
\* shouldRetry are, a retryable failure of the first attempt ends the run: the
\* operation is invoked exactly once, onFailedAttempt once, shouldRetry is not
\* consulted, and pRetry rejects with the error of that attempt.
C21_ZeroMaxRetryTimeStopsAfterFirstFailure ==
    (Started /\ args.maxRetryTime = Num(0))
        => /\ Count("input") <= 1
           /\ Count("shouldRetry") = 0
           /\ FirstAttemptFailedRetryably
                  => /\ pc = "rejected"
                     /\ settled = LastThrown
                     /\ settled.id = 1
                     /\ Count("input") = 1
                     /\ Count("onFailedAttempt") = 1

C21_Witness ==
    /\ Started
    /\ args.maxRetryTime = Num(0)
    /\ args.retries = Num(Infinity)
    /\ FirstAttemptFailedRetryably
    /\ pc = "rejected"
    /\ settled = NewError("Error", "fixture", 1)

\* the run has a deadline
HasDeadline == Started /\ options.maxRetryTime # Infinity

\* the moment the deadline falls
Deadline == startTime + options.maxRetryTime

\* C22: the delay awaited is capped by the time left under maxRetryTime: in
\* every run, also when shouldRetry takes time to resolve, the inter-attempt
\* wait ends no later than start + maxRetryTime, and when no time is left the
\* delay is skipped and the run fails with the error of the attempt.
C22_NeverSleepsPastDeadline ==
    HasDeadline
        => /\ (pc = "delay" => timer.at <= Deadline)
           /\ (pc = "delay" => now < Deadline)

---------------------------------------------------------------------------
(* Skipped failures *)

\* the failure of attempt k is one the shouldSkip option given holds of
Skipped(k) == args.shouldSkip # Undefined /\ k \in args.shouldSkip.skips

\* how many of the failures before attempt k the shouldSkip option holds of
SkippedBefore(k) == Cardinality({j \in 1..(k - 1) : Skipped(j)})

\* the run was ended by its retry budget: it rejected with the error of its
\* last attempt, no callback threw and shouldRetry did not refuse
EndedByBudget ==
    /\ pc = "rejected"
    /\ NoCallbackThrew
    /\ LastAttemptFailedRetryably
    /\ ~ShouldRetryRefused
    /\ settled = LastThrown

\* C23: a failure shouldSkip returns true for does not consume a retry: the
\* retries left are unchanged across it, while the attempt number advances and
\* onFailedAttempt is still invoked; so with retries = 1 and an operation whose
\* failures are all skipped the operation is invoked more than 2 times.
C23_SkippedFailureKeepsBudget ==
    (Started /\ args.shouldSkip # Undefined)
        => /\ \A i \in Indices("onFailedAttempt") :
                  /\ trace[i].arg.attemptNumber = trace[i].at
                  /\ trace[i].arg.retriesLeft
                         = options.retries - ((trace[i].at - 1) - SkippedBefore(trace[i].at))
           /\ (/\ options.retries = 1
               /\ \A k \in 1..attemptNumber : Skipped(k)
               /\ EndedByBudget)
                  => Count("input") > 2

\* C24: skipped failures do not count toward the growth of the backoff: the
\* delay after a failure that is not skipped and follows s skipped failures is
\* the delay of the policy for the attempt index less s.
C24_SkippedFailuresDoNotGrowBackoff ==
    (Started /\ args.shouldSkip # Undefined /\ PlainBackoff)
        => \A i \in Waits :
               ~Skipped(trace[i].at)
                   => trace[i].arg.n
                          = calculateDelay(trace[i].at - SkippedBefore(trace[i].at),
                                           options, 10)

---------------------------------------------------------------------------
(* makeRetriable: the claims *)

\* the returned function has been called and its run has made an attempt
RetriableRunning == trace[1].ev = "retriable" /\ Count("input") > 0

\* the run rejected because its retries were used up
RetriesUsedUp ==
    /\ pc = "rejected"
    /\ NoCallbackThrew
    /\ LastAttemptFailedRetryably
    /\ ~ShouldRetryRefused

\* C25: calling the function makeRetriable(f, options) returned with receiver r
\* and arguments a is pRetry(() => f.apply(r, a), options): on every attempt f
\* gets the same receiver and the same arguments (never the attempt number),
\* the result or the rejection is that of the pRetry run, and every call of the
\* function starts a fresh run with a full retry budget.
C25_RetriableForwardsReceiverAndArguments ==
    RetriableRunning
        => /\ \A i \in Indices("function_") :
                  /\ trace[i].arg = trace[1].arg
                  /\ trace[i - 1].ev = "input"
                  /\ trace[i - 1].at = trace[i].at
           /\ \A i \in Indices("input") :
                  /\ Len(trace) > i
                  /\ trace[i + 1].ev = "function_"
                  /\ trace[i].at = Cardinality({j \in Indices("input") : j <= i})
           /\ \A i \in Indices("onFailedAttempt") :
                  trace[i].arg.retriesLeft = options.retries - (trace[i].at - 1)
           /\ (pc = "resolved" => LastEvent.ev = "inputReturned" /\ settled = LastEvent.arg)
           /\ (RetriesUsedUp => settled = LastThrown /\ Count("input") = options.retries + 1)

\* the second call, with a receiver and arguments, has used its whole budget
C25_Witness ==
    /\ RetriableRunning
    /\ trace[1].at = MaxWrapperCalls
    /\ trace[1].arg = [this |-> Str("receiver"), arguments_ |-> <<Str("a"), Num(7)>>]
    /\ options.retries = 1
    /\ RetriesUsedUp
    /\ \E i \in Indices("function_") : trace[i].at = 2 /\ trace[i].arg = trace[1].arg

---------------------------------------------------------------------------
(* Values that are not errors *)

\* the failures of the operation with a value that is not an Error
NonErrorThrows == {i \in Indices("inputThrew") : ~IsError(trace[i].arg)}

\* the TypeError a thrown 'not an error' string is wrapped in
WrappedFixture ==
    NewError("TypeError",
             "Non-error was thrown: \"not an error\". You should only throw errors.", 0)

\* C26: when the operation throws a value that is not an Error, pRetry never
\* rejects with the raw value: the rejection is an error whose message carries
\* the stringified value ('Non-error was thrown: ...'), and every error handed
\* to onFailedAttempt or shouldRetry is a proper Error.
C26_NonErrorIsWrapped ==
    /\ \A i \in NonErrorThrows :
           /\ pc = "rejected"
           /\ settled # trace[i].arg
           /\ IsError(settled)
           /\ trace[i].arg = Str("not an error") => settled = WrappedFixture
    /\ \A i \in Indices("onFailedAttempt") \cup Indices("shouldRetry") :
           IsError(trace[i].arg.error)

C26_Witness ==
    /\ NonErrorThrows # {}
    /\ attemptNumber = 2
    /\ pc = "rejected"
    /\ settled = WrappedFixture

\* C27 as stated: a value that is not an Error is, once wrapped, a retryable
\* failure: onFailedAttempt is invoked with the wrapped error and the operation
\* can be attempted again.
C27_NonErrorIsRetryable ==
    \A i \in NonErrorThrows :
        /\ Len(trace) > i
        /\ trace[i + 1].ev = "onFailedAttempt"
        /\ trace[i + 1].arg.error = WrappedFixture

\* C27: a value that is not an Error is, once wrapped, a TypeError that is not
\* a network error, hence terminal: pRetry rejects with the wrapped error at
\* once, neither onFailedAttempt nor shouldRetry is invoked for that failure,
\* and the operation is not attempted again, whatever retries remain.
C27_NonErrorIsTerminal ==
    \A i \in NonErrorThrows :
        /\ Len(trace) = i
        /\ pc = "rejected"
        /\ IsTypeError(settled)
        /\ ~isNetworkError(settled)
        /\ \A j \in Indices("onFailedAttempt") \cup Indices("shouldRetry") :
               trace[j].at < trace[i].at
        /\ Count("input") = trace[i].at

\* a first attempt that throws a string although retries remain
C27_Witness ==
    /\ NonErrorThrows # {}
    /\ attemptNumber = 1
    /\ options.retries = MaxRetries
    /\ pc = "rejected"
    /\ Count("onFailedAttempt") = 0
    /\ IsTypeError(settled)

---------------------------------------------------------------------------
(* Cancellation reasons that are not errors *)

\* pRetry has rejected on seeing the signal aborted: before the first attempt,
\* during a delay, or after an attempt that was in flight at the abort returned
RejectedOnCancellation ==
    /\ pc = "rejected"
    /\ signal.state = "aborted"
    /\ \/ trace = <<>> /\ ValidationError(args) = Undefined
       \/ Started /\ LastEvent.ev = "clearTimeout"
       \/ \E i \in AbortsBeforeSuccess : Len(trace) = i + 1

\* C28: when the run is cancelled with a reason that is not an Error, the
\* rejection is a generic 'operation aborted' error that wraps the reason,
\* never the raw reason and never a 'Non-error was thrown' TypeError, whether
\* the cancellation is seen before the first attempt, during an attempt or
\* during a delay.
C28_NonErrorReasonIsWrapped ==
    (RejectedOnCancellation /\ ~IsError(signal.reason))
        => /\ settled # signal.reason
           /\ IsError(settled)
           /\ ~IsTypeError(settled)
           /\ settled.msg = StringOf(signal.reason)

---------------------------------------------------------------------------
(* Attempt numbers *)

\* how many times the operation had been invoked when event i happened
InvocationsUpTo(i) == Cardinality({j \in Indices("input") : j <= i})

\* C29: the attempt number starts at 1 and grows by exactly 1 per iteration:
\* the i-th invocation of the operation receives i, the context of its failure
\* carries attemptNumber = i, and no number is skipped or repeated.
C29_AttemptNumberCountsInvocations ==
    /\ \A i \in Indices("input") :
           /\ trace[i].arg = Num(InvocationsUpTo(i))
           /\ trace[i].at = InvocationsUpTo(i)
    /\ \A i \in Indices("inputThrew") :
           /\ trace[i].at = InvocationsUpTo(i)
           /\ \A j \in ContextEvents :
                  (j > i /\ trace[j].at = trace[i].at)
                      => trace[j].arg.attemptNumber = InvocationsUpTo(i)
    /\ Count("input") <= attemptNumber
    /\ attemptNumber <= Count("input") + 1

C29_Witness ==
    /\ Count("input") = MaxRetries + 1
    /\ \E i \in Indices("input") : trace[i].arg = Num(1) /\ InvocationsUpTo(i) = 1
    /\ \E i \in Indices("input") : trace[i].arg = Num(MaxRetries + 1)
    /\ \E i \in Indices("onFailedAttempt") :
           trace[i].arg.attemptNumber = MaxRetries + 1 /\ InvocationsUpTo(i) = MaxRetries + 1

---------------------------------------------------------------------------
(* No attempt after an abort *)

\* C30: once the signal is aborted the operation is never invoked again,
\* wherever the abort falls: while the operation or a callback runs, during
\* the wait, or after the timer fired and before the loop resumes.
C30_NoAttemptAfterAbort ==
    [][signal.state = "aborted" => Indices("input")' = Indices("input")]_vars

\* the abort came after the timer fired, line 178 refused the next attempt and
\* the run went to onAttemptFailure instead of the operation
C30_Witness ==
    /\ signal.state = "aborted"
    /\ \E i \in Indices("abort") :
           /\ i > 1
           /\ trace[i - 1].ev = "timerFired"
           /\ \A j \in Indices("input") : j < i
           /\ \E j \in Indices("onFailedAttempt") :
                  j > i /\ trace[j].arg.attemptNumber = Count("input") + 1

---------------------------------------------------------------------------
(* Timers and listeners *)

\* the run is inside the wait between two attempts
Waiting == pc = "delay"

\* C31: no timer and no abort listener is leaked: outside the wait between two
\* attempts the delay timer is not pending and onAbort is not registered on the
\* signal, whether the wait ended by the timer or by cancellation; so nothing
\* is pending or registered once pRetry has settled.
C31_NoTimerOrListenerLeaked ==
    /\ ~Waiting => (~timer.pending /\ ~signal.listener)
    /\ Count("setTimeout") = Count("timerFired") + Count("clearTimeout")
                               + (IF timer.pending THEN 1 ELSE 0)
    /\ pc \in {"resolved", "rejected"} => (~timer.pending /\ ~signal.listener)

\* one wait ended by its timer, the next by cancellation, and the run has settled
C31_Witness ==
    /\ pc = "rejected"
    /\ Count("timerFired") = 1
    /\ Count("clearTimeout") = 1
    /\ Count("setTimeout") = 2
    /\ LastEvent.ev = "clearTimeout"
    /\ ~timer.pending
    /\ ~signal.listener

---------------------------------------------------------------------------
(* Time spent in onFailedAttempt *)

\* the step in which onFailedAttempt settles by returning
OnFailedAttemptSettles ==
    /\ pc = "onFailedAttempt"
    /\ Len(trace') > Len(trace)
    /\ trace'[Len(trace) + 1].ev = "onFailedAttemptReturned"

\* C32: time spent inside onFailedAttempt counts toward maxRetryTime: when
\* onFailedAttempt finishes at or after start + maxRetryTime, the run rejects
\* with the error of the attempt, and neither shouldRetry nor the operation is
\* invoked again.
C32_OnFailedAttemptTimeCounts ==
    [][(OnFailedAttemptSettles /\ now - startTime >= options.maxRetryTime)
          => /\ pc' = "rejected"
             /\ settled' = context.error
             /\ currentTime' = now
             /\ Indices("shouldRetry")' = Indices("shouldRetry")
             /\ Indices("input")' = Indices("input")]_vars

\* retries were left, the deadline lay ahead of the call, and it had passed when
\* the first onFailedAttempt finished
C32_Witness ==
    /\ Started
    /\ pc = "rejected"
    /\ LastEvent.ev = "onFailedAttemptReturned"
    /\ Count("input") = 1
    /\ Count("shouldRetry") = 0
    /\ options.retries > 0
    /\ options.maxRetryTime = 2
    /\ currentTime - startTime >= options.maxRetryTime
    /\ settled = context.error

---------------------------------------------------------------------------
(* retries = Infinity *)

\* what ended a rejected run, other than the retry budget: a terminal error of
\* the operation, a failing callback, a refusal of shouldRetry, the deadline
\* or a cancellation
EndedOtherwise ==
    \/ LastEvent.ev = "inputThrew" /\ IsTerminalError(NormalizeError(LastEvent.arg))
    \/ LastEvent.ev \in {"onFailedAttemptThrew", "shouldRetryThrew"}
    \/ LastEvent.ev = "shouldRetryReturned" /\ LastEvent.arg \in FalsyResults
    \/ LastEvent.ev = "onFailedAttemptReturned"
          /\ currentTime - startTime >= options.maxRetryTime
    \/ signal.state = "aborted"

\* C33: with retries = Infinity the retry budget never ends the run: after a
\* retryable failure that shouldRetry accepted, within the deadline and without
\* cancellation, the next attempt is made, and a run that rejects was ended by
\* a terminal error, a callback, the deadline or a cancellation.
C33_InfiniteRetriesNeverExhausted ==
    [][(Started' /\ Policy.retries = Infinity)
          => /\ (pc' = "rejected" => EndedOtherwise')
             /\ (pc = "loop" /\ pc' # "loop" /\ signal.state # "aborted")
                    => /\ pc' = "input"
                       /\ attemptNumber' = attemptNumber + 1
                       /\ Count("input")' = Count("input") + 1]_vars

---------------------------------------------------------------------------
(* Independent calls *)

\* what a call given ConcurrentOptions does when it runs alone: attempts are
\* numbered 1, 2, ..., the contexts count the retries down, the waits are
\* 1, 2, 4 ms, and the outcome is the last return value or the error thrown
AsIfAlone ==
    /\ \A i \in Indices("input") :
           /\ trace[i].at = InvocationsUpTo(i)
           /\ trace[i].arg = Num(InvocationsUpTo(i))
    /\ Started => Count("input") <= options.retries + 1
    /\ \A i \in ContextEvents :
           /\ trace[i].at = InvocationsUpTo(i)
           /\ trace[i].arg.attemptNumber = InvocationsUpTo(i)
           /\ trace[i].arg.retriesLeft = args.retries.n - (InvocationsUpTo(i) - 1)
           /\ trace[i].arg.error.id = InvocationsUpTo(i)
    /\ \A i \in Waits : trace[i].arg = Num(Pow(2, InvocationsUpTo(i) - 1))
    /\ pc = "resolved" =>
           /\ LastEvent.ev = "inputReturned"
           /\ settled = LastEvent.arg
    /\ (pc = "rejected" /\ LastEvent.ev \in {"onFailedAttemptReturned", "shouldRetryReturned"})
           => /\ IsError(settled)
              /\ settled.id = Count("input")
              /\ settled.msg \in {"fixture", "Failed to fetch"}
    /\ (pc = "rejected" /\ LastEvent.ev = "onFailedAttemptReturned")
           => Count("input") = args.retries.n + 1

\* C34: two pRetry calls in flight at once, given the same options object,
\* share no state: in every interleaving the call that is running has the
\* attempt numbers, retries-left values, delays and outcome of a call that
\* runs alone (and so has the other call, which was running one switch ago).
C34_ConcurrentCallsAreIndependent ==
    /\ otherCall # Undefined
    /\ AsIfAlone

\* the running call has rejected after its last attempt while the other call
\* is waiting between its first and second attempts
C34_Witness ==
    /\ otherCall # Undefined
    /\ pc = "rejected"
    /\ args.retries = Num(2)
    /\ Count("input") = 3
    /\ Count("setTimeout") = 2
    /\ otherCall.pc = "delay"
    /\ otherCall.attemptNumber = 1
    /\ otherCall.timer.pending
    /\ otherCall.options = options

---------------------------------------------------------------------------
(* The context of a failure *)

\* every context handed to shouldRetry is the one onFailedAttempt got for the
\* same failure: same error, same attemptNumber, same retriesLeft
SameContextForBothCallbacks ==
    \A i \in Indices("shouldRetry") :
        \E j \in Indices("onFailedAttempt") :
            /\ j < i
            /\ trace[j].at = trace[i].at
            /\ SameContext(trace[j].arg, trace[i].arg)

\* C35: each failed attempt gets a fresh, frozen context that is never
\* changed afterwards: onFailedAttempt and shouldRetry get the same error,
\* attemptNumber and retriesLeft for one failure, a callback that writes to the
\* context leaves it as it was, and the context only changes when a later
\* failure gets a new one.
C35_ContextIsFreshAndFrozen ==
    [][/\ SameContextForBothCallbacks'
       /\ (pc \in {"onFailedAttempt", "shouldRetry"} => SameContext(context', context))
       /\ (context' # Undefined /\ (context = Undefined \/ ~SameContext(context', context)))
              => /\ context'.frozen
                 /\ context'.attemptNumber = attemptNumber'
                 /\ (context # Undefined
                        => context'.attemptNumber > context.attemptNumber)]_vars

\* shouldRetry wrote to the context of the second failure and the run rejected
\* with the TypeError of that write; the context still has its values
C35_Witness ==
    /\ Started
    /\ pc = "rejected"
    /\ LastEvent.ev = "shouldRetryThrew"
    /\ IsTypeError(settled)
    /\ settled.msg = "Cannot assign to read only property 'retriesLeft' of object '#<Object>'"
    /\ context.attemptNumber = 2
    /\ context.retriesLeft = options.retries - 1
    /\ Count("shouldRetry") = 2

---------------------------------------------------------------------------
(* What onFailedAttempt is told *)

\* C36: onFailedAttempt is invoked only for attempts whose operation failed:
\* never for an attempt whose operation returned, and the error of its context
\* is the error the operation raised (or the wrapper of a non-Error), never
\* the cancellation reason of the signal.
C36_OnFailedAttemptOnlyForFailedOperation ==
    \A i \in Indices("onFailedAttempt") :
        /\ \E j \in Indices("inputThrew") :
               /\ j < i
               /\ trace[j].at = trace[i].at
               /\ trace[i].arg.error = NormalizeError(trace[j].arg)
        /\ \A j \in Indices("inputReturned") : trace[j].at # trace[i].at
        /\ \A j \in Indices("abort") : trace[i].arg.error # trace[j].arg

---------------------------------------------------------------------------
(* Attempts and the deadline *)

\* the step in which the operation is invoked again
Reinvokes == Count("input") >= 1 /\ Count("input")' = Count("input") + 1

\* C37: no attempt is started after the deadline: whenever the operation is
\* invoked again, the time elapsed since the start of the run is strictly less
\* than maxRetryTime, however long the operation and the callbacks took.
C37_NoAttemptAfterDeadline ==
    [][(Started /\ Reinvokes) => now' - startTime < options.maxRetryTime]_vars

---------------------------------------------------------------------------
(* An abort before the wait *)

\* the abort events that happened during the operation, onFailedAttempt or
\* shouldRetry, before the delay timer of that attempt was scheduled
AbortsBeforeTheWait ==
    {i \in Indices("abort") :
        i > 1 /\ trace[i - 1].ev \in {"input", "onFailedAttempt", "shouldRetry"}}

\* C38: after an abort during the operation, onFailedAttempt or shouldRetry no
\* wait takes place: no delay timer is scheduled afterwards and the run
\* rejects with the cancellation reason.
C38_AbortBeforeTheWaitSkipsIt ==
    \A i \in AbortsBeforeTheWait :
        /\ \A j \in Indices("setTimeout") : j < i
        /\ pc # "resolved"
        /\ pc = "rejected" => settled = trace[i].arg

---------------------------------------------------------------------------
(* Termination *)

\* the promise pRetry returned has settled
Settled == pc \in {"resolved", "rejected"}

\* the retries option is a finite number (the default of 10 attempts more
\* than MaxCalls and is left out)
FiniteRetries == args.retries \notin {Undefined, Num(Infinity)}

\* the run is back at the while condition after MaxCalls attempts and the
\* condition holds: the code invokes the operation again, beyond the attempts
\* followed here
RunsOn ==
    /\ pc = "loop"
    /\ attemptNumber >= MaxCalls
    /\ LoopCondition(attemptNumber, options)

\* C39: with finite retries, when the operation and the callbacks settle and
\* the timers fire, every run eventually settles (it does not run on beyond
\* the attempts followed here); it settles once, and after that neither the
\* operation nor a callback is invoked and the outcome stays.
C39_RunSettlesOnce ==
    /\ [](FiniteRetries => ~RunsOn)
    /\ FiniteRetries => <>Settled
    /\ [][Settled => (pc' = pc /\ settled' = settled /\ trace' = trace)]_vars

---------------------------------------------------------------------------
(* The fallback after the loop *)

\* the run rejected with the error thrown after the while loop
RejectedByFallback ==
    /\ pc = "rejected"
    /\ IsError(settled)
    /\ settled.msg = "Retry attempts exhausted without throwing an error."

\* C40: the fallback after the loop is unreachable: pRetry never rejects with
\* 'Retry attempts exhausted without throwing an error.', because
\* onAttemptFailure only returns to the loop while an attempt is left: the
\* failure of the last permitted attempt is rethrown.
C40_FallbackIsUnreachable ==
    /\ ~RejectedByFallback
    /\ (Started /\ pc = "loop" /\ Policy.retries # Infinity)
          => attemptNumber < Policy.retries + 1

=============================================================================
